---- MODULE Spec2Model ----
(***************************************************************************)
(* Model of buch_app.py: the whitespace normaliser (fix_line_breaks), the  *)
(* chunker (chunk_text), the synthesis adapter (text_to_speech) and the    *)
(* sequential orchestrator (convert_text_to_speech).                       *)
(*                                                                         *)
(* A text is a sequence of one-character strings.  The speech backend,     *)
(* the file system and the audio codec are the environment: each call      *)
(* draws its outcome nondeterministically.                                 *)
(***************************************************************************)
EXTENDS Integers, Sequences, FiniteSets, TLC

\* ---------------------------------------------------------------- bounds
MaxLen == 5
MaxL == 3

\* MAX_CHARS is 4096 in the source (line 40); it is scaled down so that
\* texts longer than the limit fit in the bounded alphabet.
MAX_CHARS == 2

WS == {" ", "\n"}
Chars == {"a", "b"} \cup WS
Causes == {"network", "quota"}
Outcomes == {"raise", "absent", "empty", "corrupt", "audio"}

RECURSIVE SeqsUpTo(_)
SeqsUpTo(n) ==
  IF n = 0 THEN {<<>>}
  ELSE LET S == SeqsUpTo(n - 1)
       IN S \cup {Append(s, c) : s \in {t \in S : Len(t) = n - 1}, c \in Chars}

Texts == SeqsUpTo(MaxLen)

VARIABLES input, text, normalized, max_length, pc, chunks, i, calls, files,
          combined_audio, progress_bar, status, errors, ret, out_file

vars == <<input, text, normalized, max_length, pc, chunks, i, calls, files,
          combined_audio, progress_bar, status, errors, ret, out_file>>

\* ------------------------------------------------------- string helpers
\* \s of the regular expressions
isWs(c) == c \in WS

RECURSIVE Flatten(_)
Flatten(ss) == IF ss = <<>> THEN <<>> ELSE Head(ss) \o Flatten(Tail(ss))

\* length of the maximal prefix of s whose characters all have isWs = ws
RunLen(s, ws) ==
  CHOOSE n \in 0..Len(s) :
    /\ \A k \in 1..n : isWs(s[k]) = ws
    /\ (n = Len(s) \/ isWs(s[n + 1]) # ws)

\* ------------------------------------------------------ fix_line_breaks
\* a line break neither preceded nor followed by a line break: the match of
\* (?<!\n)\n(?!\n); the text's start and end satisfy the lookarounds
Isolated(s, k) ==
  /\ s[k] = "\n"
  /\ ~(k > 1 /\ s[k - 1] = "\n")
  /\ ~(k < Len(s) /\ s[k + 1] = "\n")

\* mutant: the lookbehind is forgotten
fix_line_breaks_NoLookbehind(s) ==
  [k \in 1..Len(s) |->
     IF s[k] = "\n" /\ ~(k < Len(s) /\ s[k + 1] = "\n") THEN " " ELSE s[k]]

fix_line_breaks(s) ==
  [k \in 1..Len(s) |-> IF Isolated(s, k) THEN " " ELSE s[k]]

\* ----------------------------------------------------------- chunk_text
\* mutant: the split pattern has no capturing group, the separators are lost
RECURSIVE re_split_NoCapture(_)
re_split_NoCapture(s) ==
  LET n == RunLen(s, FALSE)
      w == SubSeq(s, 1, n)
      rest == SubSeq(s, n + 1, Len(s))
  IN IF rest = <<>> THEN <<w>>
     ELSE LET m == RunLen(rest, TRUE)
          IN <<w>> \o re_split_NoCapture(SubSeq(rest, m + 1, Len(rest)))

\* mutant: the text is tokenised character by character
re_split_PerChar(s) == [k \in 1..Len(s) |-> <<s[k]>>]

\* re.split(r'(\s+)', text): non-whitespace pieces (the first and the last
\* possibly empty) alternating with the whitespace runs that separate them
RECURSIVE re_split(_)
re_split(s) ==
  LET n == RunLen(s, FALSE)
      w == SubSeq(s, 1, n)
      rest == SubSeq(s, n + 1, Len(s))
  IN IF rest = <<>> THEN <<w>>
     ELSE LET m == RunLen(rest, TRUE)
          IN <<w, SubSeq(rest, 1, m)>>
               \o re_split(SubSeq(rest, m + 1, Len(rest)))

\* the for loop of chunk_text from token k on, and the final append
RECURSIVE ChunkLoop(_, _, _, _, _)
ChunkLoop(tokens, k, cs, current_chunk, L) ==
  IF k > Len(tokens)
  THEN IF current_chunk # <<>> THEN Append(cs, current_chunk) ELSE cs
  ELSE LET token == tokens[k]
       IN IF Len(current_chunk) + Len(token) <= L
          THEN ChunkLoop(tokens, k + 1, cs, current_chunk \o token, L)
          ELSE ChunkLoop(tokens, k + 1, Append(cs, current_chunk), token, L)

chunk_text(s, L) == ChunkLoop(re_split(s), 1, <<>>, <<>>, L)

\* ------------------------------------------------------- result values
\* a returned string is either a path to an audio file or a message that
\* starts with "Error:".  what: which message; chunk: the chunk number the
\* message names (0: none); cause: the text of the exception (str(e));
\* handle: the temporary file a path names (0: the combined output file)
Err(what, chunk, cause) ==
  [kind |-> "Error", what |-> what, chunk |-> chunk, cause |-> cause,
   handle |-> 0]
Path(h) ==
  [kind |-> "path", what |-> "temp_file", chunk |-> 0, cause |-> "",
   handle |-> h]
OutPath ==
  [kind |-> "path", what |-> "out_file", chunk |-> 0, cause |-> "",
   handle |-> 0]
None == [kind |-> "None", what |-> "", chunk |-> 0, cause |-> "", handle |-> 0]

\* ------------------------------------------------------- text_to_speech
\* one call of the adapter on the fresh temporary file temp_file (voice and
\* model are passed through to the backend unchanged and are left out).
\* o is what the backend does: "raise" (the request fails with cause c and
\* the created file stays empty), "absent" (the file is gone after the
\* call), "empty", "corrupt" or "audio" (the bytes the call streamed).
\* ret is the returned string, file the state of temp_file at the return.
text_to_speech(s, temp_file, o, c) ==
  IF o = "raise" THEN [ret |-> Err("synthesis", 0, c), file |-> "empty"]
  ELSE IF o = "absent" THEN [ret |-> Err("not_created", 0, ""), file |-> "absent"]
  ELSE [ret |-> Path(temp_file), file |-> o]

\* ----------------------------------------------- convert_text_to_speech
\* mutant: the length test is strict
IsShort_Strict(s) == Len(s) < MAX_CHARS

\* if len(text) <= MAX_CHARS
IsShort(s) == Len(s) <= MAX_CHARS

\* mutant: the error test is forgotten
startswith_Error_Never(audio_path) == FALSE

\* audio_path.startswith("Error:")
startswith_Error(audio_path) == audio_path.kind = "Error"

\* AudioSegment.from_mp3 succeeds on audio bytes only
Decodable(file) == file = "audio"

\* the decoded buffer of temporary file h, which holds the speech of chunk
Segment(h, chunk) == [handle |-> h, text |-> chunk]

\* mutant: the new segment is put in front
Concat_Prepend(combined, segment) == <<segment>> \o combined

\* combined_audio = segment if combined_audio is None, else += segment
Concat(combined, segment) == Append(combined, segment)

total == Len(chunks)

Init ==
  /\ input \in Texts
  /\ text = input
  /\ normalized = FALSE
  /\ max_length = MAX_CHARS
  /\ pc = "start"
  /\ chunks = <<>>
  /\ i = 0
  /\ calls = <<>>
  /\ files = <<>>
  /\ combined_audio = <<>>
  /\ progress_bar = <<>>
  /\ status = [msg |-> "", chunk |-> 0]
  /\ errors = <<>>
  /\ ret = None
  /\ out_file = [exists |-> FALSE, audio |-> <<>>]

\* correct_direct_text / correct_file_text: the text is replaced by its
\* normalisation; the button can be pressed any number of times
CorrectText ==
  /\ pc = "start"
  /\ text' = fix_line_breaks(text)
  /\ normalized' = TRUE
  /\ UNCHANGED <<input, max_length, pc, chunks, i, calls, files,
                 combined_audio, progress_bar, status, errors, ret, out_file>>

\* a call chunk_text(text, L) with an explicit maximum length
CallChunkText ==
  /\ pc = "start"
  /\ \E L \in 1..MaxL :
       /\ max_length' = L
       /\ chunks' = chunk_text(text, L)
  /\ pc' = "chunked"
  /\ UNCHANGED <<input, text, normalized, i, calls, files, combined_audio,
                 progress_bar, status, errors, ret, out_file>>

\* convert_text_to_speech, lines 84-85: one adapter call on the whole text
ConvertShort ==
  /\ pc = "start"
  /\ IsShort(text)
  /\ \E o \in Outcomes, c \in Causes :
       LET h == Len(calls) + 1
           r == text_to_speech(text, h, o, c)
       IN /\ calls' = Append(calls, [text |-> text, outcome |-> o, result |-> r.ret])
          /\ files' = Append(files, r.file)
          /\ ret' = r.ret
          /\ pc' = IF r.ret.kind = "path" THEN "done" ELSE "failed"
  /\ UNCHANGED <<input, text, normalized, max_length, chunks, i,
                 combined_audio, progress_bar, status, errors, out_file>>

\* lines 87-91: chunk the text, show the progress bar at 0
ConvertBegin ==
  /\ pc = "start"
  /\ ~IsShort(text)
  /\ chunks' = chunk_text(text, MAX_CHARS)
  /\ combined_audio' = <<>>
  /\ progress_bar' = <<[num |-> 0, den |-> 1]>>
  /\ i' = 0
  /\ pc' = "loop"
  /\ UNCHANGED <<input, text, normalized, max_length, calls, files, status,
                 errors, ret, out_file>>

\* lines 92-110: one iteration of the loop over the chunks.  vanish: the
\* temporary file is removed between the adapter's return and line 98
LoopStep ==
  /\ pc = "loop"
  /\ i < total
  /\ \E o \in Outcomes, c \in Causes, vanish \in BOOLEAN :
       LET k == i + 1
           chunk == chunks[k]
           h == Len(calls) + 1
           r == text_to_speech(chunk, h, o, c)
           audio_path == r.ret
           file == IF vanish THEN "absent" ELSE r.file
       IN /\ vanish => r.ret.kind = "path"
          /\ status' = [msg |-> "Verarbeite Chunk", chunk |-> k]
          /\ calls' = Append(calls, [text |-> chunk, outcome |-> o, result |-> audio_path])
          /\ files' = Append(files, file)
          /\ IF startswith_Error(audio_path)
             THEN /\ errors' = Append(errors, [what |-> "Fehler bei Chunk", chunk |-> k, detail |-> audio_path])
                  /\ ret' = audio_path
                  /\ pc' = "failed"
                  /\ UNCHANGED <<i, combined_audio, progress_bar>>
             ELSE IF file = "absent"
             THEN /\ errors' = Append(errors, [what |-> "nicht gefunden", chunk |-> k, detail |-> audio_path])
                  /\ ret' = Err("nicht gefunden", k, "")
                  /\ pc' = "failed"
                  /\ UNCHANGED <<i, combined_audio, progress_bar>>
             ELSE IF ~Decodable(file)
             THEN /\ errors' = Append(errors, [what |-> "Fehler beim Laden", chunk |-> k, detail |-> Err("decode", 0, file)])
                  /\ ret' = Err("Fehler beim Laden", k, file)
                  /\ pc' = "failed"
                  /\ UNCHANGED <<i, combined_audio, progress_bar>>
             ELSE /\ combined_audio' = Concat(combined_audio, Segment(h, chunk))
                  /\ progress_bar' = Append(progress_bar, [num |-> k, den |-> total])
                  /\ i' = k
                  /\ UNCHANGED <<errors, ret, pc>>
  /\ UNCHANGED <<input, text, normalized, max_length, chunks, out_file>>

\* lines 111-115: after the last chunk the combined audio is exported to a
\* new temporary file; an exception of the export is not caught and leaves
\* the function without a return value
Export ==
  /\ pc = "loop"
  /\ i = total
  /\ \E ok \in BOOLEAN :
       IF ok
       THEN /\ out_file' = [exists |-> TRUE, audio |-> combined_audio]
            /\ status' = [msg |-> "Audio-Kombination abgeschlossen", chunk |-> 0]
            /\ ret' = OutPath
            /\ pc' = "done"
       ELSE /\ out_file' = [exists |-> TRUE, audio |-> <<>>]
            /\ status' = [msg |-> "kombiniere Audio", chunk |-> 0]
            /\ ret' = ret
            /\ pc' = "crashed"
  /\ UNCHANGED <<input, text, normalized, max_length, chunks, i, calls, files,
                 combined_audio, progress_bar, errors>>

Next ==
  \/ CorrectText
  \/ CallChunkText
  \/ ConvertShort
  \/ ConvertBegin
  \/ LoopStep
  \/ Export

Spec == Init /\ [][Next]_vars

\* ------------------------------------------------------------ properties
TypeOK ==
  /\ pc \in {"start", "chunked", "loop", "done", "failed", "crashed"}
  /\ text \in Texts
  /\ i \in 0..total
  /\ ret.kind \in {"None", "path", "Error"}

\* chunks holds a result of chunk_text(text, max_length)
Chunked == pc = "chunked" \/ progress_bar # <<>>

\* the multi-chunk path of convert_text_to_speech has been entered
MultiPath == progress_bar # <<>>

\* number of characters in the first j chunks
RECURSIVE Offset(_, _)
Offset(cs, j) == IF j = 0 THEN 0 ELSE Offset(cs, j - 1) + Len(cs[j])

\* s[a..b] is a maximal run of non-whitespace characters
IsWord(s, a, b) ==
  /\ 1 <= a /\ a <= b /\ b <= Len(s)
  /\ \A k \in a..b : ~isWs(s[k])
  /\ (a = 1 \/ isWs(s[a - 1]))
  /\ (b = Len(s) \/ isWs(s[b + 1]))

NoLongWord(s, L) ==
  \A a \in 1..Len(s), b \in 1..Len(s) : IsWord(s, a, b) => b - a + 1 <= L

\* C1: concatenating the chunks of chunk_text(text, L) in order gives the
\* text back, character for character
C1_RoundTrip == Chunked => Flatten(chunks) = text

C1_Witness ==
  /\ pc = "chunked"
  /\ Len(chunks) >= 3
  /\ \E k \in 1..Len(text) : text[k] = "\n"
  /\ \E k \in 1..Len(text) : text[k] = " "
  /\ Flatten(chunks) = text

\* C2: when no whitespace-delimited token of the text is longer than L,
\* every chunk has at most L characters
C2_ChunkBound ==
  (Chunked /\ NoLongWord(text, max_length))
    => \A j \in 1..Len(chunks) : Len(chunks[j]) <= max_length

\* C5: a text that is one non-whitespace token longer than L is returned as
\* the single chunk, and no other chunk is emitted
C5_OversizedToken ==
  (/\ pc = "chunked"
   /\ Len(text) > max_length
   /\ \A k \in 1..Len(text) : ~isWs(text[k]))
    => chunks = <<text>>

C10_Idempotent ==
  normalized =>
    /\ fix_line_breaks(text) = text
    /\ \A k \in 1..Len(text) : ~Isolated(text, k)
    /\ Len(text) = Len(input)
    /\ \A k \in 1..Len(input) :
         text[k] = IF Isolated(input, k) THEN " " ELSE input[k]

C10_Witness ==
  /\ normalized
  /\ pc = "start"
  /\ \E k \in 1..Len(input) : Isolated(input, k)
  /\ \E k \in 1..Len(input) - 1 : input[k] = "\n" /\ input[k + 1] = "\n"
  /\ \E k \in 1..Len(text) - 1 : text[k] = "\n" /\ text[k + 1] = "\n"
  /\ text # input

\* the adapter call for the chunk just processed returned an error
AdapterFailed ==
  /\ MultiPath
  /\ pc = "failed"
  /\ calls # <<>>
  /\ calls[Len(calls)].result.kind = "Error"

\* C3 (as claimed): when the adapter call for chunk k fails, the returned
\* failure references chunk k and carries the adapter's cause, no later chunk
\* is synthesised, chunk k is not retried and no combined audio is written
C3_FailFast_Claimed ==
  AdapterFailed =>
    LET k == Len(calls)
    IN /\ ret.kind = "Error"
       /\ ret.chunk = k
       /\ ret.cause = calls[k].result.cause
       /\ \A j \in 1..k : calls[j].text = chunks[j]
       /\ ~out_file.exists

\* C3 (amended): when the adapter call for chunk k fails, the displayed error
\* references chunk k, the returned value is the adapter's failure unchanged
\* (it carries the cause, not the chunk number), the adapter has been called
\* once for each of the chunks 1..k and for no other, no combined audio is
\* written, and nothing happens after the failure
C3_FailFast ==
  /\ [](AdapterFailed =>
          LET k == Len(calls)
          IN /\ ret = calls[k].result
             /\ errors = <<[what |-> "Fehler bei Chunk", chunk |-> k,
                            detail |-> calls[k].result]>>
             /\ k = i + 1
             /\ \A j \in 1..k : calls[j].text = chunks[j]
             /\ ~out_file.exists)
  /\ [][pc = "failed" => UNCHANGED vars]_vars

C3_Witness ==
  /\ AdapterFailed
  /\ total = 3
  /\ Len(calls) = 2
  /\ calls[2].outcome = "raise"
  /\ ret.cause = "quota"

\* C4: the adapter is called on the chunks in text order, at most once per
\* chunk and on success exactly once per chunk; after step i the combined
\* audio is the segments of chunks 1..i in order, and so is the exported file
C4_InOrder ==
  MultiPath =>
    /\ Len(calls) <= total
    /\ \A j \in 1..Len(calls) : calls[j].text = chunks[j]
    /\ Len(combined_audio) = i
    /\ \A j \in 1..i : combined_audio[j] = Segment(j, chunks[j])
    /\ pc = "done" =>
         /\ Len(calls) = total
         /\ i = total
         /\ out_file.exists
         /\ out_file.audio = [j \in 1..total |-> Segment(j, chunks[j])]

C4_Witness ==
  /\ MultiPath
  /\ pc = "done"
  /\ total = 3
  /\ chunks[1] # chunks[2] /\ chunks[2] # chunks[3] /\ chunks[1] # chunks[3]
  /\ Len(out_file.audio) = 3

\* C6: the progress shown is (chunks completed)/(total chunks), it never
\* decreases, and a run that ends in failure never shows 1.0
C6_Progress ==
  MultiPath =>
    /\ LET last == progress_bar[Len(progress_bar)]
       IN last.num * total = i * last.den
    /\ \A j \in 1..Len(progress_bar) - 1 :
         progress_bar[j].num * progress_bar[j + 1].den
           <= progress_bar[j + 1].num * progress_bar[j].den
    /\ pc \in {"failed", "crashed"} =>
         \A j \in 1..Len(progress_bar) : progress_bar[j].num < progress_bar[j].den

\* C7: the adapter returns a failure whenever the backend call raises and
\* whenever the audio file is absent or empty after the call, so a conversion
\* that ends with a path never rests on an absent or empty file
C7_FailureSurfaced ==
  /\ \A k \in 1..Len(calls) :
       calls[k].outcome \in {"raise", "absent", "empty"}
         => calls[k].result.kind = "Error"
  /\ (pc = "done" /\ ret.kind = "path") =>
       \A k \in 1..Len(calls) : calls[k].outcome \notin {"absent", "empty"}

\* convert_text_to_speech has returned on a text of at most MAX_CHARS characters
ShortReturned == pc \in {"done", "failed"} /\ Len(text) <= MAX_CHARS

\* what the single-call path leaves behind: one adapter call on the whole
\* text, its result returned, no chunking, decoding or export
SingleCall ==
  /\ Len(calls) = 1
  /\ calls[1].text = text
  /\ ret = calls[1].result
  /\ (pc = "done") = (ret.kind = "path")
  /\ chunks = <<>>
  /\ progress_bar = <<>>
  /\ combined_audio = <<>>
  /\ ~out_file.exists
  /\ errors = <<>>

\* C9 (as claimed): a text shorter than L gives exactly one chunk, the whole
\* text, and a text of at most L characters is converted by one adapter call
C9_SingleChunk_Claimed ==
  /\ (pc = "chunked" /\ Len(text) < max_length) => chunks = <<text>>
  /\ ShortReturned => SingleCall

\* C9 (amended): a non-empty text shorter than L gives exactly one chunk, the
\* whole text, and a text of at most L characters is converted by one adapter
\* call on the whole text, ending with the adapter's path or its failure
C9_SingleChunk ==
  /\ (pc = "chunked" /\ text # <<>> /\ Len(text) < max_length) => chunks = <<text>>
  /\ ShortReturned => SingleCall

C9_Witness ==
  /\ ShortReturned
  /\ pc = "done"
  /\ Len(text) = MAX_CHARS
  /\ ret = Path(1)
  /\ files = <<"audio">>

====
